---- MODULE Spec2Model ----
(***************************************************************************)
(* Model of examples/spritesheet_generator/make_sprites_flip_animations.py *)
(* (the flip clock spritesheet generator).                                 *)
(*                                                                         *)
(* An image is modelled by what the geometry and the packing read of it:   *)
(* its size, and where it came from (the character rendered, the half, the *)
(* angle the planner was given, the source quadrilateral).  Pixels are not *)
(* modelled.                                                               *)
(*                                                                         *)
(* The planner divides by 90 in floating point.  The model keeps those     *)
(* values exact, as numerators over 90: a definition whose name ends in 90 *)
(* is 90 times the Python value.                                           *)
(***************************************************************************)
EXTENDS Integers, Sequences, FiniteSets, TLC

VARIABLES
    pc,              \* position of the program (of main, or of the function called)
    args,            \* the arguments of the call (the CLI options, for main)
    result,          \* the value the function called returned
    i,               \* main: the loop index of the loop being run
    fonts_readable,  \* environment: the font files ImageFont.truetype can load
    loaded,          \* main: the font files loaded successfully so far
    top_sprites,     \* make_animations_sheets: top_sprites
    bottom_sprites,  \* make_animations_sheets: bottom_sprites
    files            \* the files written so far: name -> the sheet saved

vars == <<pc, args, result, i, fonts_readable, loaded, top_sprites, bottom_sprites, files>>

-----------------------------------------------------------------------------
(* Module constants of the script.                                         *)

DEFAULT_FONT == "LeagueSpartan-Regular.ttf"
DEFAULT_FONT_SIZE == 44
TILE_WIDTH == 48
TILE_HEIGHT == 100
PADDING_SIZE == 8

\* The divisor of the planner's angle fractions, and the end of the angle range.
RIGHT_ANGLE == 90
\* The frame count make_animations_sheets passes to make_angles_sprite_set.
ANIMATION_COUNT == 10
\* The column count make_animations_sheets passes to pack_images_to_sheet.
ANIMATION_SHEET_WIDTH == 10
\* The number of digits rendered (range(10)).
DIGIT_COUNT == 10
\* The static sheet's grid: 3 columns, 4 rows.
STATIC_COLUMNS == 3
STATIC_ROWS == 4
\* main's default for animation_frames.
DEFAULT_ANIMATION_FRAMES == 10

-----------------------------------------------------------------------------
(* Bounds of the model.                                                    *)

\* pack_images_to_sheet is called with 1..MaxTiles tiles,
MaxTiles == 12
\* and 1..MaxColumns columns.
MaxColumns == 4
\* make_angles_sprite_set is called with count in 1..MaxCount,
MaxCount == 91
\* and half tiles of height 1..MaxHalfHeight.
MaxHalfHeight == 4
\* main is run with animation_frames in 1..MaxFrames.
MaxFrames == 11
\* find_coeffs is called with quadrilaterals of width and height up to MaxDim.
MaxDim == 2

Min(a, b) == IF a <= b THEN a ELSE b

-----------------------------------------------------------------------------
(* Skew Geometry Planner.                                                  *)

\* x_val of find_top_half_coeffs_inputs_for_angle, times 90.
top_x_val90(angle) == angle * PADDING_SIZE

\* x_val of find_bottom_half_coeffs_inputs_for_angle, times 90.
bottom_x_val90(angle) == (RIGHT_ANGLE - angle) * PADDING_SIZE

\* y_val of both planners, times 90: min((angle * img.height) / 90, img.height - 1).
y_val90(img, angle) == Min(angle * img.height, RIGHT_ANGLE * (img.height - 1))

\* first_list of the top planner, every coordinate times 90.
top_first_list90(img, angle) ==
    LET x == top_x_val90(angle)
        y == y_val90(img, angle)
    IN  << <<-(x + RIGHT_ANGLE), y>>,
           <<RIGHT_ANGLE * img.width + x, y>>,
           <<RIGHT_ANGLE * img.width, RIGHT_ANGLE * img.height>>,
           <<0, RIGHT_ANGLE * img.height>> >>

\* first_list of the bottom planner, every coordinate times 90.
bottom_first_list90(img, angle) ==
    LET x == bottom_x_val90(angle)
        y == y_val90(img, angle)
    IN  << <<0, 0>>,
           <<RIGHT_ANGLE * img.width, 0>>,
           <<RIGHT_ANGLE * img.width + x, y>>,
           <<-(x + RIGHT_ANGLE), y>> >>

\* second_list of both planners (in pixels).
second_list(img) ==
    << <<0, 0>>, <<img.width, 0>>, <<img.width, img.height>>, <<0, img.height>> >>

-----------------------------------------------------------------------------
(* Halves.                                                                 *)

\* Mutant of get_top_half: the image is not cropped.
get_top_half_uncropped(img) == img

\* get_top_half: img.crop((0, 0, img.width, img.height // 2)).
get_top_half(img) ==
    [img EXCEPT !.height = img.height \div 2]

\* get_bottom_half: img.crop((0, img.height // 2, img.width, img.height)).
get_bottom_half(img) ==
    [img EXCEPT !.height = img.height - (img.height \div 2)]

-----------------------------------------------------------------------------
(* Animation Frame Generator.                                              *)

\* angle_count_by = (90 // count) + 1
angle_count_by(count) == (RIGHT_ANGLE \div count) + 1

\* range(start, stop, step) for step > 0, as the sequence it iterates.
RECURSIVE range(_, _, _)
range(start, stop, step) ==
    IF start >= stop THEN <<>>
    ELSE <<start>> \o range(start + step, stop, step)

\* Mutant of frame_angles: range(0, 90, angle_count_by), which leaves 90 out.
frame_angles_exclusive(count) == range(0, RIGHT_ANGLE, angle_count_by(count))

\* The angles the loop of make_angles_sprite_set visits: range(0, 91, angle_count_by).
frame_angles(count) == range(0, RIGHT_ANGLE + 1, angle_count_by(count))

\* Mutant of planner_angle: the loop angle is passed as it is.
planner_angle_raw(_angle) == _angle

\* The angle handed to the planner for loop angle _angle.
planner_angle(_angle) == _angle + 1

\* One pass of the loop body: the transformed image, which keeps the size of img
\* (img.transform((img.width, img.height), ...)) and records the geometry used.
angled_sprite(img, _angle, bottom_skew) ==
    LET a == planner_angle(_angle)
    IN  [width       |-> img.width,
         height      |-> img.height,
         character   |-> img.character,
         bottom_skew |-> bottom_skew,
         raw_angle   |-> _angle,
         angle       |-> a,
         x_val90     |-> IF bottom_skew THEN bottom_x_val90(a) ELSE top_x_val90(a),
         y_val90     |-> y_val90(img, a),
         first_list90 |-> IF bottom_skew THEN bottom_first_list90(img, a)
                          ELSE top_first_list90(img, a),
         second_list |-> second_list(img)]

\* make_angles_sprite_set(img, count, bottom_skew): the list angled_sprites.
make_angles_sprite_set(img, count, bottom_skew) ==
    LET angles == frame_angles(count)
    IN  [k \in 1..Len(angles) |-> angled_sprite(img, angles[k], bottom_skew)]

-----------------------------------------------------------------------------
(* Sheet Packer.                                                           *)

\* Mutant of row_count: len(images) // width.
row_count_floor(n, width) == n \div width

\* math.ceil(len(images) / width), for width >= 1.
row_count(n, width) == (n + width - 1) \div width

\* The size of _sheet_img: (_img_width * width, _img_height * row_count).
sheet_size(images, width) ==
    <<images[1].width * width, images[1].height * row_count(Len(images), width)>>

\* coords of tile i (0-based) in the paste loop.
coords(idx, image, width) ==
    <<(idx % width) * TILE_WIDTH, (idx \div width) * image.height>>

\* pack_images_to_sheet(images, width): the sheet, as its size and the tiles pasted.
pack_images_to_sheet(images, width) ==
    [size  |-> sheet_size(images, width),
     tiles |-> [k \in 1..Len(images) |->
                   [coords |-> coords(k - 1, images[k], width), image |-> images[k]]]]

-----------------------------------------------------------------------------
(* Values of the variables a specification does not use.                   *)

Fonts == {DEFAULT_FONT, "Custom.ttf"}
FileNames == {"static_sheet.bmp", "bottom_animation_sheet.bmp", "top_animation_sheet.bmp"}
NoSheet == [size |-> <<0, 0>>, tiles |-> <<>>]
NoFiles == [name \in FileNames |-> NoSheet]

MainIdle ==
    /\ i = 0
    /\ fonts_readable = [f \in Fonts |-> TRUE]
    /\ loaded = {}
    /\ top_sprites = <<>>
    /\ bottom_sprites = <<>>
    /\ files = NoFiles

MainUnchanged == UNCHANGED <<i, fonts_readable, loaded, top_sprites, bottom_sprites, files>>

-----------------------------------------------------------------------------
(* SpecPack: pack_images_to_sheet on every list of 1..MaxTiles equal-size  *)
(* tiles and every column count 1..MaxColumns.                             *)

\* Tile sizes packed: the full tile, the half tile, and two that are not TILE_WIDTH wide.
PackTileSizes == {<<TILE_WIDTH, TILE_HEIGHT>>, <<TILE_WIDTH, TILE_HEIGHT \div 2>>,
                  <<TILE_WIDTH \div 2, TILE_HEIGHT \div 2>>, <<60, 30>>}

Tiles(n, size) == [k \in 1..n |-> [width |-> size[1], height |-> size[2], index |-> k - 1]]

InitPack ==
    /\ pc = "pack_call"
    /\ \E n \in 1..MaxTiles, size \in PackTileSizes, width \in 1..MaxColumns :
          args = [images |-> Tiles(n, size), width |-> width]
    /\ result = NoSheet
    /\ MainIdle

PackImages ==
    /\ pc = "pack_call"
    /\ result' = pack_images_to_sheet(args.images, args.width)
    /\ pc' = "pack_done"
    /\ UNCHANGED args
    /\ MainUnchanged

NextPack == PackImages

SpecPack == InitPack /\ [][NextPack]_vars

\* Whether the w x h rectangles at offsets p and q share a pixel.
Overlap(p, q, w, h) ==
    /\ p[1] < q[1] + w /\ q[1] < p[1] + w
    /\ p[2] < q[2] + h /\ q[2] < p[2] + h

\* C1: pack_images_to_sheet places tile i at ((i % width) * tile_width,
\* (i // width) * tile_height), tile_width and tile_height being the size of the
\* tiles packed; so every tile lies inside the composite and no two tiles overlap.
C1_PlacementByTileSize ==
    pc = "pack_done" =>
        LET tw == args.images[1].width
            th == args.images[1].height
            n  == Len(args.images)
        IN  /\ \A k \in 1..n :
                  /\ result.tiles[k].coords =
                        <<((k - 1) % args.width) * tw, ((k - 1) \div args.width) * th>>
                  /\ result.tiles[k].coords[1] + tw <= result.size[1]
                  /\ result.tiles[k].coords[2] + th <= result.size[2]
            /\ \A k, l \in 1..n :
                  k # l => ~Overlap(result.tiles[k].coords, result.tiles[l].coords, tw, th)

\* C5: the composite of n equal-size tiles is exactly
\* (tile_width * width, tile_height * ceil(n / width)); 11 tiles of 48x100 in 3
\* columns give (144, 400), 4 rows.
C5_SheetSize ==
    pc = "pack_done" =>
        LET tw == args.images[1].width
            th == args.images[1].height
            n  == Len(args.images)
            \* ceil(n / width): the least number of rows of width tiles that hold n
            rows == CHOOSE r \in 1..n : r * args.width >= n /\ (r - 1) * args.width < n
        IN  /\ result.size = <<tw * args.width, th * rows>>
            /\ (n = 11 /\ tw = 48 /\ th = 100 /\ args.width = 3) =>
                  (rows = 4 /\ result.size = <<144, 400>>)

\* Eleven 48x100 tiles in 3 columns have been packed.
C5_Witness ==
    /\ pc = "pack_done"
    /\ Len(args.images) = 11
    /\ args.images[1].width = 48 /\ args.images[1].height = 100
    /\ args.width = 3
    /\ result.size = <<144, 400>>

-----------------------------------------------------------------------------
(* SpecFrames: make_angles_sprite_set on every count 1..MaxCount, both     *)
(* hinge modes, and half tiles of height 1..MaxHalfHeight and of the       *)
(* script's own half height.                                               *)

HalfHeights == (1..MaxHalfHeight) \cup {TILE_HEIGHT \div 2}

InitFrames ==
    /\ pc = "frames_call"
    /\ \E h \in HalfHeights, count \in 1..MaxCount, bottom_skew \in BOOLEAN :
          args = [img |-> [width |-> TILE_WIDTH, height |-> h, character |-> "0"],
                  count |-> count, bottom_skew |-> bottom_skew]
    /\ result = <<>>
    /\ MainIdle

MakeAngles ==
    /\ pc = "frames_call"
    /\ result' = make_angles_sprite_set(args.img, args.count, args.bottom_skew)
    /\ pc' = "frames_done"
    /\ UNCHANGED args
    /\ MainUnchanged

NextFrames == MakeAngles

SpecFrames == InitFrames /\ [][NextFrames]_vars

C7_AngleAndXBound ==
    pc = "frames_done" =>
        \A k \in 1..Len(result) :
            /\ result[k].angle \in 1..90
            /\ 0 <= result[k].x_val90
            /\ result[k].x_val90 <= PADDING_SIZE * 90

\* C8: for every half-tile height h >= 2 and every angle the frame generator
\* passes to the planner, 0 < y_val <= h - 1 in both modes, so the displaced edge
\* never coincides with the hinge edge: the source quadrilateral has a height.
C8_YClamp ==
    (pc = "frames_done" /\ args.img.height >= 2) =>
        \A k \in 1..Len(result) :
            /\ 0 < result[k].y_val90
            /\ result[k].y_val90 <= 90 * (args.img.height - 1)
            \* left edge and right edge of the source quadrilateral: top y # bottom y
            /\ result[k].first_list90[1][2] # result[k].first_list90[4][2]
            /\ result[k].first_list90[2][2] # result[k].first_list90[3][2]

\* The clamp acts (raw angle 90, planner angle 91) and so does the least angle.
C8_Witness ==
    /\ pc = "frames_done"
    /\ args.img.height >= 2
    /\ \E k \in 1..Len(result) :
          /\ result[k].angle = 91
          /\ result[k].y_val90 = 90 * (args.img.height - 1)
          /\ result[k].y_val90 < result[k].angle * args.img.height
    /\ result[1].angle = 1
    /\ result[1].y_val90 = args.img.height

-----------------------------------------------------------------------------
(* Spec: a run of main, for every font option, every animation_frames      *)
(* option in 1..MaxFrames, and every set of readable font files.  The font *)
(* files do not change while the script runs.                              *)

\* f"{i}" for a digit i.
str(d) == <<"0", "1", "2", "3", "4", "5", "6", "7", "8", "9">>[d + 1]

\* Mutant of truetype: a font that cannot be loaded is replaced silently.
truetype_fallback(font) == TRUE

\* ImageFont.truetype(font, font_size): whether it returns (it raises otherwise).
truetype(font) == fonts_readable[font]

\* make_sprite(character, font_size, font), once the font is loaded: inner_img,
\* of size inner_image_size = (TILE_WIDTH, TILE_HEIGHT).
make_sprite(character) ==
    [width |-> TILE_WIDTH, height |-> TILE_HEIGHT, character |-> character]

\* Mutant of extend: the items are put in front.
extend_front(list, items) == items \o list

\* list.extend
extend(list, items) == list \o items

\* coords of tile idx of the static sheet.
static_coords(idx) ==
    <<(idx % STATIC_COLUMNS) * TILE_WIDTH, (idx \div STATIC_COLUMNS) * TILE_HEIGHT>>

\* full_sheet_img.paste(img, coords)
paste(sheet, img, at) ==
    [sheet EXCEPT !.tiles = Append(sheet.tiles, [coords |-> at, image |-> img])]

Init ==
    /\ pc = "main"
    /\ \E font \in Fonts, animation_frames \in 1..MaxFrames :
          args = [font |-> font, font_size |-> DEFAULT_FONT_SIZE,
                  animation_frames |-> animation_frames]
    /\ fonts_readable \in [Fonts -> BOOLEAN]
    /\ result = NoSheet
    /\ i = 0
    /\ loaded = {}
    /\ top_sprites = <<>>
    /\ bottom_sprites = <<>>
    /\ files = NoFiles

\* main calls make_static_sheet, which creates full_sheet_img.
StaticSheetNew ==
    /\ pc = "main"
    /\ result' = [size |-> <<TILE_WIDTH * STATIC_COLUMNS, TILE_HEIGHT * STATIC_ROWS>>,
                  tiles |-> <<>>]
    /\ i' = 0
    /\ pc' = "static_loop"
    /\ UNCHANGED <<args, fonts_readable, loaded, top_sprites, bottom_sprites, files>>

\* One pass of make_static_sheet's loop over range(10).
StaticDigit ==
    /\ pc = "static_loop"
    /\ IF truetype(args.font)
       THEN /\ loaded' = loaded \cup {args.font}
            /\ result' = paste(result, make_sprite(str(i)), static_coords(i))
            /\ i' = i + 1
            /\ pc' = IF i + 1 < DIGIT_COUNT THEN "static_loop" ELSE "static_colon"
       ELSE /\ pc' = "aborted"
            /\ UNCHANGED <<loaded, result, i>>
    /\ UNCHANGED <<args, fonts_readable, top_sprites, bottom_sprites, files>>

\* make_sprite(":", font_size=font_size): the font is not passed, so DEFAULT_FONT.
StaticColon ==
    /\ pc = "static_colon"
    /\ IF truetype(DEFAULT_FONT)
       THEN /\ loaded' = loaded \cup {DEFAULT_FONT}
            /\ result' = paste(result, make_sprite(":"), static_coords(DIGIT_COUNT))
            /\ pc' = "static_save"
       ELSE /\ pc' = "aborted"
            /\ UNCHANGED <<loaded, result>>
    /\ UNCHANGED <<args, i, fonts_readable, top_sprites, bottom_sprites, files>>

\* full_sheet_img.save("static_sheet.bmp"); main goes on to make_animations_sheets.
StaticSave ==
    /\ pc = "static_save"
    /\ files' = [files EXCEPT !["static_sheet.bmp"] = result]
    /\ i' = 0
    /\ top_sprites' = <<>>
    /\ bottom_sprites' = <<>>
    /\ pc' = "anim_loop"
    /\ UNCHANGED <<args, result, fonts_readable, loaded>>

\* One pass of make_animations_sheets' loop over range(10).
AnimDigit ==
    /\ pc = "anim_loop"
    /\ IF truetype(args.font)
       THEN LET img == make_sprite(str(i))
                top_half == get_top_half(img)
                bottom_half == get_bottom_half(img)
                bottom_angled_sprites ==
                    make_angles_sprite_set(bottom_half, ANIMATION_COUNT, TRUE)
                top_angled_sprites ==
                    make_angles_sprite_set(top_half, ANIMATION_COUNT, FALSE)
            IN  /\ loaded' = loaded \cup {args.font}
                /\ bottom_sprites' = extend(bottom_sprites, bottom_angled_sprites)
                /\ top_sprites' = extend(top_sprites, top_angled_sprites)
                /\ i' = i + 1
                /\ pc' = IF i + 1 < DIGIT_COUNT THEN "anim_loop" ELSE "pack_bottom"
       ELSE /\ pc' = "aborted"
            /\ UNCHANGED <<loaded, bottom_sprites, top_sprites, i>>
    /\ UNCHANGED <<args, result, fonts_readable, files>>

\* bottom_sheet = pack_images_to_sheet(bottom_sprites, 10), saved.
PackBottom ==
    /\ pc = "pack_bottom"
    /\ files' = [files EXCEPT !["bottom_animation_sheet.bmp"] =
                    pack_images_to_sheet(bottom_sprites, ANIMATION_SHEET_WIDTH)]
    /\ pc' = "pack_top"
    /\ UNCHANGED <<args, result, i, fonts_readable, loaded, top_sprites, bottom_sprites>>

\* top_sheet = pack_images_to_sheet(top_sprites, 10), saved; main returns.
PackTop ==
    /\ pc = "pack_top"
    /\ files' = [files EXCEPT !["top_animation_sheet.bmp"] =
                    pack_images_to_sheet(top_sprites, ANIMATION_SHEET_WIDTH)]
    /\ pc' = "done"
    /\ UNCHANGED <<args, result, i, fonts_readable, loaded, top_sprites, bottom_sprites>>

Next ==
    \/ StaticSheetNew
    \/ StaticDigit
    \/ StaticColon
    \/ StaticSave
    \/ AnimDigit
    \/ PackBottom
    \/ PackTop

Spec == Init /\ [][Next]_vars

\* A run with no overrides.
NoOverrides ==
    /\ args.font = DEFAULT_FONT
    /\ args.font_size = DEFAULT_FONT_SIZE
    /\ args.animation_frames = DEFAULT_ANIMATION_FRAMES

\* Every tile of the sheet sits in column (index % 10): the frames are packed 10 per row.
TenPerRow(sheet) ==
    \A k \in 1..Len(sheet.tiles) :
        sheet.tiles[k].coords[1] = ((k - 1) % 10) * sheet.tiles[k].image.width

\* C2 as stated: with no overrides the top and the bottom animation sheet hold 100
\* frames each, 10 per row, and are (480, 1000); the static sheet is (144, 400).
C2_DefaultSizesAsStated ==
    (pc = "done" /\ NoOverrides) =>
        /\ Len(files["top_animation_sheet.bmp"].tiles) = 100
        /\ Len(files["bottom_animation_sheet.bmp"].tiles) = 100
        /\ TenPerRow(files["top_animation_sheet.bmp"])
        /\ TenPerRow(files["bottom_animation_sheet.bmp"])
        /\ files["top_animation_sheet.bmp"].size = <<480, 1000>>
        /\ files["bottom_animation_sheet.bmp"].size = <<480, 1000>>
        /\ files["static_sheet.bmp"].size = <<144, 400>>

\* C2 amended: with no overrides the top and the bottom animation sheet hold 100
\* frames each, 10 per row, and are (480, 500), the frames being half tiles of
\* 48 x 50; the static sheet is (144, 400).
C2_DefaultSizes ==
    (pc = "done" /\ NoOverrides) =>
        /\ Len(files["top_animation_sheet.bmp"].tiles) = 100
        /\ Len(files["bottom_animation_sheet.bmp"].tiles) = 100
        /\ TenPerRow(files["top_animation_sheet.bmp"])
        /\ TenPerRow(files["bottom_animation_sheet.bmp"])
        /\ files["top_animation_sheet.bmp"].size = <<480, 500>>
        /\ files["bottom_animation_sheet.bmp"].size = <<480, 500>>
        /\ files["static_sheet.bmp"].size = <<144, 400>>

\* A run with no overrides has written its three sheets.
C2_Witness ==
    /\ pc = "done"
    /\ NoOverrides
    /\ files["top_animation_sheet.bmp"].size = <<480, 500>>
    /\ files["static_sheet.bmp"].size = <<144, 400>>

\* Frame k of digit d in a frame list: element d*10 + k (0-based).
FrameOf(list, d, k) == list[d * 10 + k + 1]

\* C4: the frames of digits 0..9 are appended in digit order, each digit's frames
\* contiguous and in increasing angle order: frame k of digit d is element d*10 + k
\* of its list and, packed with width 10, sits in column k of row d of its sheet;
\* the top and the bottom frame of a cell are of the same digit and raw angle.
C4_AnimationLayout ==
    /\ pc \in {"anim_loop", "pack_bottom", "pack_top", "done"} =>
          /\ Len(top_sprites) = 10 * i
          /\ Len(bottom_sprites) = 10 * i
          /\ \A d \in 0..(i - 1), k \in 0..9 :
                /\ FrameOf(top_sprites, d, k).character = str(d)
                /\ FrameOf(bottom_sprites, d, k).character = str(d)
                /\ ~FrameOf(top_sprites, d, k).bottom_skew
                /\ FrameOf(bottom_sprites, d, k).bottom_skew
                /\ FrameOf(top_sprites, d, k).raw_angle
                      = FrameOf(bottom_sprites, d, k).raw_angle
                /\ k < 9 => FrameOf(top_sprites, d, k).raw_angle
                               < FrameOf(top_sprites, d, k + 1).raw_angle
    /\ pc \in {"pack_bottom", "pack_top", "done"} => i = 10
    /\ \A name \in {"bottom_animation_sheet.bmp", "top_animation_sheet.bmp"} :
          files[name] # NoSheet =>
              /\ Len(files[name].tiles) = 100
              /\ \A d \in 0..9, k \in 0..9 :
                    LET tile == FrameOf(files[name].tiles, d, k)
                    IN  /\ tile.image = FrameOf(IF name = "top_animation_sheet.bmp"
                                                THEN top_sprites ELSE bottom_sprites, d, k)
                        /\ tile.coords = <<k * tile.image.width, d * tile.image.height>>

\* Frame 3 of digit 7 sits in column 3 of row 7 of both saved sheets.
C4_Witness ==
    /\ pc = "done"
    /\ FrameOf(files["top_animation_sheet.bmp"].tiles, 7, 3).coords = <<144, 350>>
    /\ FrameOf(files["top_animation_sheet.bmp"].tiles, 7, 3).image.character = "7"
    /\ FrameOf(files["bottom_animation_sheet.bmp"].tiles, 7, 3).image.character = "7"
    /\ FrameOf(files["bottom_animation_sheet.bmp"].tiles, 7, 3).image.raw_angle = 30

\* The fonts a run uses: the font option, and DEFAULT_FONT for the ':' sprite.
FontsUsed == {args.font, DEFAULT_FONT}

\* C9: if a font the run uses cannot be loaded, main aborts before any output is
\* written: every output write is preceded by a successful load of every font the
\* run uses.
C9_FontsBeforeOutput ==
    /\ (\E name \in FileNames : files[name] # NoSheet) =>
          /\ FontsUsed \subseteq loaded
          /\ \A f \in FontsUsed : fonts_readable[f]
    /\ (\E f \in FontsUsed : ~fonts_readable[f]) =>
          /\ files = NoFiles
          /\ pc \in {"main", "static_loop", "static_colon", "aborted"}

\* The font option loads for all ten digits, DEFAULT_FONT fails for ':'.
C9_Witness ==
    /\ pc = "aborted"
    /\ args.font # DEFAULT_FONT
    /\ fonts_readable[args.font]
    /\ ~fonts_readable[DEFAULT_FONT]
    /\ Len(result.tiles) = 10
    /\ files = NoFiles

\* The number of frames of digit d in a frame list.
FramesOfDigit(list, d) == Cardinality({k \in 1..Len(list) : list[k].character = str(d)})

\* C10: a run with animation_frames = N produces
\* floor(90 / ((90 // N) + 1)) + 1 frames per digit per half.
C10_FrameCountHonoured ==
    pc = "done" =>
        LET N == args.animation_frames
            frames == (90 \div ((90 \div N) + 1)) + 1
        IN  \A d \in 0..9 :
                /\ FramesOfDigit(top_sprites, d) = frames
                /\ FramesOfDigit(bottom_sprites, d) = frames

-----------------------------------------------------------------------------
(* Perspective Coefficient Solver.                                         *)
(*                                                                         *)
(* find_coeffs solves its linear system in floating point.  The model      *)
(* solves the same system exactly: the solution is kept as integer         *)
(* numerators over one common denominator, and a singular system, for      *)
(* which                                                                   *)
(* numpy.linalg.inv raises LinAlgError (or, when rounding hides the        *)
(* singularity, returns values that solve nothing), is the result with     *)
(* ok = FALSE.                                                             *)

\* Mutant of matrix_rows: the products of the last two columns are not negated.
matrix_rows_unsigned(p1, p2) ==
    << <<p1[1], p1[2], 1, 0, 0, 0, p2[1] * p1[1], p2[1] * p1[2]>>,
       <<0, 0, 0, p1[1], p1[2], 1, p2[2] * p1[1], p2[2] * p1[2]>> >>

\* The two rows find_coeffs appends for the pair (p1, p2).
matrix_rows(p1, p2) ==
    << <<p1[1], p1[2], 1, 0, 0, 0, -p2[1] * p1[1], -p2[1] * p1[2]>>,
       <<0, 0, 0, p1[1], p1[2], 1, -p2[2] * p1[1], -p2[2] * p1[2]>> >>

\* matrix, after the loop over zip(pa, pb): A.
matrix(pa, pb) ==
    [r \in 1..8 |-> matrix_rows(pa[(r + 1) \div 2], pb[(r + 1) \div 2])[2 - (r % 2)]]

\* B = numpy.array(pb).reshape(8)
reshape8(pb) == [r \in 1..8 |-> pb[(r + 1) \div 2][2 - (r % 2)]]

\* A.T * A
gram(A) == [r \in 1..8 |-> [c \in 1..8 |->
               A[1][r] * A[1][c] + A[2][r] * A[2][c] + A[3][r] * A[3][c] + A[4][r] * A[4][c]
             + A[5][r] * A[5][c] + A[6][r] * A[6][c] + A[7][r] * A[7][c] + A[8][r] * A[8][c]]]

\* A.T * B
transpose_times(A, B) == [r \in 1..8 |->
               A[1][r] * B[1] + A[2][r] * B[2] + A[3][r] * B[3] + A[4][r] * B[4]
             + A[5][r] * B[5] + A[6][r] * B[6] + A[7][r] * B[7] + A[8][r] * B[8]]

\* The exact solution x of M x = b for the augmented matrix m = [M | b], by
\* fraction-free Gauss-Jordan elimination from column k on, p being the previous
\* pivot: x[r] = num[r] / det.  ok = FALSE when M is singular.
RECURSIVE solve(_, _, _)
solve(m, k, p) ==
    IF k > Len(m)
    THEN [ok |-> TRUE, det |-> p, num |-> [r \in 1..Len(m) |-> m[r][Len(m) + 1]]]
    ELSE LET rows == {r \in k..Len(m) : m[r][k] # 0}
         IN  IF rows = {}
             THEN [ok |-> FALSE, det |-> 0, num |-> <<>>]
             ELSE LET r   == CHOOSE q \in rows : \A o \in rows : q <= o
                      sw  == [m EXCEPT ![k] = m[r], ![r] = m[k]]
                      piv == sw[k][k]
                      nx  == [a \in 1..Len(m) |->
                                IF a = k THEN sw[k]
                                ELSE [j \in 1..(Len(m) + 1) |->
                                        (piv * sw[a][j] - sw[a][k] * sw[k][j]) \div p]]
                  IN  solve(nx, k + 1, piv)

\* find_coeffs(pa, pb): numpy.dot(numpy.linalg.inv(A.T * A) * A.T, B).  A is square,
\* so A.T * A has an inverse exactly when A has one, and then
\* inv(A.T * A) * A.T * B is the solution of A x = B, which is what is computed
\* here (NormalEquations below states that it solves the code's system).
find_coeffs(pa, pb) ==
    LET A == matrix(pa, pb)
        B == reshape8(pb)
    IN  solve([r \in 1..8 |-> A[r] \o <<B[r]>>], 1, 1)

-----------------------------------------------------------------------------
(* SpecSolve: find_coeffs on pairs of small quadrilaterals of the shapes   *)
(* the planners build, well-formed and degenerate.                         *)

\* The shape of second_list: the w x h rectangle.
RectQuad(w, h) == << <<0, 0>>, <<w, 0>>, <<w, h>>, <<0, h>> >>
\* The shape of the top planner's first_list.
TopQuad(w, h, x, y) == << <<-(x + 1), y>>, <<w + x, y>>, <<w, h>>, <<0, h>> >>
\* The shape of the bottom planner's first_list.
BottomQuad(w, h, x, y) == << <<0, 0>>, <<w, 0>>, <<w + x, y>>, <<-(x + 1), y>> >>

SourceQuads ==
    {RectQuad(w, h) : w \in 0..MaxDim, h \in 0..MaxDim}
    \cup UNION {{TopQuad(w, h, x, y), BottomQuad(w, h, x, y)} :
                   <<w, h, x, y>> \in (1..MaxDim) \X (1..MaxDim) \X (0..1) \X (0..MaxDim)}

DestQuads ==
    {RectQuad(w, h) : w \in 0..MaxDim, h \in 0..MaxDim}
    \cup {TopQuad(w, h, 0, 0) : w \in 1..MaxDim, h \in 1..MaxDim}

NoResult == [ok |-> FALSE, det |-> 0, num |-> <<>>]

InitSolve ==
    /\ pc = "solve_call"
    /\ \E pa \in SourceQuads, pb \in DestQuads : args = [pa |-> pa, pb |-> pb]
    /\ result = NoResult
    /\ MainIdle

FindCoeffs ==
    /\ pc = "solve_call"
    /\ result' = find_coeffs(args.pa, args.pb)
    /\ pc' = IF result'.ok THEN "solve_done" ELSE "solve_raised"
    /\ UNCHANGED args
    /\ MainUnchanged

NextSolve == FindCoeffs

SpecSolve == InitSolve /\ [][NextSolve]_vars


\* The result of find_coeffs solves the normal equations the code inverts:
\* (A.T * A) x = A.T * B.
NormalEquations ==
    pc = "solve_done" =>
        LET A == matrix(args.pa, args.pb)
            M == gram(A)
            b == transpose_times(A, reshape8(args.pb))
        IN  \A r \in 1..8 :
                M[r][1] * result.num[1] + M[r][2] * result.num[2] + M[r][3] * result.num[3]
              + M[r][4] * result.num[4] + M[r][5] * result.num[5] + M[r][6] * result.num[6]
              + M[r][7] * result.num[7] + M[r][8] * result.num[8] = result.det * b[r]

\* The denominator of the projective map at point p, times result.det.
Den(p) == result.num[7] * p[1] + result.num[8] * p[2] + result.det

\* The coefficients map point p to point q by the projective formula.
MapsTo(p, q) ==
    /\ Den(p) # 0
    /\ q[1] * Den(p) = result.num[1] * p[1] + result.num[2] * p[2] + result.num[3]
    /\ q[2] * Den(p) = result.num[4] * p[1] + result.num[5] * p[2] + result.num[6]

\* Twice the signed area of the triangle p, q, r.
Cross(p, q, r) == (q[1] - p[1]) * (r[2] - p[2]) - (q[2] - p[2]) * (r[1] - p[1])

\* No three corners of the quadrilateral are collinear.
NonDegenerate(quad) ==
    \A a, b, c \in 1..4 : (a < b /\ b < c) => Cross(quad[a], quad[b], quad[c]) # 0

PlannerQuadsSolvable ==
    \A w \in 1..MaxDim, h \in 1..MaxDim, x \in 0..1, y \in 1..MaxDim :
        /\ (args.pa = TopQuad(w, h, x, y) /\ y < h /\ args.pb = RectQuad(w, h))
              => pc # "solve_raised"
        /\ (args.pa = BottomQuad(w, h, x, y) /\ args.pb = RectQuad(w, h))
              => pc # "solve_raised"

====
